---- MODULE Spec2Model ----
(***************************************************************************)
(* Adaptive explicit Runge-Kutta stepper of                                *)
(* deepchem/utils/differentiation_utils/integrate/adaptive_rk.py.          *)
(*                                                                         *)
(* Numbers.  The program computes in binary floating point.  The model     *)
(* keeps the format and shrinks it: a number is an integer count of        *)
(* 1/Unit, representable when its magnitude has at most Precision          *)
(* significant bits, and every arithmetic operation rounds its exact       *)
(* result to the nearest representable number, ties to even.  A result     *)
(* above MaxFl, a division by zero and every operation on a non-finite     *)
(* operand give the one non-finite value NaN; a comparison with NaN is     *)
(* false, as in IEEE-754.                                                  *)
(***************************************************************************)
EXTENDS Integers, Sequences, FiniteSets, TLC

Precision == 5
\* 1 is a number of the format, as in every binary format: the unit is a
\* power of two.
Unit == 2 ^ (Precision + 1)
MaxFl == 16384

NaN == MaxFl + 1
IsFin(x) == x # NaN
Abs(x) == IF x < 0 THEN -x ELSE x

RECURSIVE Quantum(_, _)
\* The spacing of the representable numbers around magnitude x (an integer).
Quantum(x, g) == IF x < (2 ^ Precision) * g THEN g ELSE Quantum(x, 2 * g)

\* m/den (m >= 0, den > 0) rounded to the nearest representable magnitude.
RoundMag(m, den) ==
    LET g == Quantum(m \div den, 1)
        d == den * g
        k == m \div d
        r == m - k * d
    IN  IF 2 * r > d \/ (2 * r = d /\ k % 2 = 1) THEN (k + 1) * g ELSE k * g

\* num/den (den > 0) as a number of the format.
Fl(num, den) ==
    LET v == RoundMag(Abs(num), den)
    IN  IF v > MaxFl THEN NaN ELSE IF num < 0 THEN -v ELSE v

Neg(a) == IF IsFin(a) THEN -a ELSE NaN
Add(a, b) == IF IsFin(a) /\ IsFin(b) THEN Fl(a + b, 1) ELSE NaN
Sub(a, b) == IF IsFin(a) /\ IsFin(b) THEN Fl(a - b, 1) ELSE NaN
Mul(a, b) == IF IsFin(a) /\ IsFin(b) THEN Fl(a * b, Unit) ELSE NaN
Div(a, b) ==
    IF IsFin(a) /\ IsFin(b) /\ b # 0
    THEN Fl((IF b < 0 THEN -a ELSE a) * Unit, Abs(b))
    ELSE NaN
Lt(a, b) == IsFin(a) /\ IsFin(b) /\ a < b
Gt(a, b) == Lt(b, a)

\* A Python literal p/q as the format stores it.
Lit(p, q) == Fl(p * Unit, q)
Max(a, b) == IF IsFin(a) /\ IsFin(b) THEN (IF a < b THEN b ELSE a) ELSE NaN

RECURSIVE ISqrt(_, _, _)
\* The largest integer k in lo..hi-1 with k * k <= w (lo * lo <= w < hi * hi).
ISqrt(lo, hi, w) ==
    IF hi - lo <= 1 THEN lo
    ELSE LET mid == (lo + hi) \div 2
         IN  IF mid * mid <= w THEN ISqrt(mid, hi, w) ELSE ISqrt(lo, mid, w)

\* The square root of a (a >= 0), correctly rounded.
Sqrt(a) ==
    IF ~IsFin(a) \/ a < 0 THEN NaN
    ELSE LET w == a * Unit
             k == ISqrt(0, MaxFl + 1, w)
         IN  IF k * k = w THEN Fl(k, 1)
             ELSE IF w <= k * k + k THEN Fl(4 * k + 1, 4) ELSE Fl(4 * k + 3, 4)

RECURSIVE PowN(_, _)
\* r ** n by repeated multiplication (n >= 1).
PowN(r, n) == IF n = 1 THEN r ELSE Mul(PowN(r, n - 1), r)

\* r ** q * e <= 1, for the representable number nearest r.
RootBelow(r, e, q) ==
    LET x == Fl(r, 1)
        p == Mul(PowN(x, q), e)
    IN  IsFin(x) /\ IsFin(p) /\ p <= Unit

RECURSIVE RootUp(_, _, _, _)
\* The largest r in lo..hi-1 with RootBelow (lo has it, hi has not).
RootUp(lo, hi, e, q) ==
    IF hi - lo <= 1 THEN Fl(lo, 1)
    ELSE LET mid == (lo + hi) \div 2
         IN  IF RootBelow(mid, e, q) THEN RootUp(mid, hi, e, q) ELSE RootUp(lo, mid, e, q)

\* errnorm ** error_exponent, the exponent being -1/q: e ** (-1/q).
\* 0 ** (-1/q) is inf and nan ** x is nan: both NaN here.
PowInv(e, q) == IF ~IsFin(e) \/ e <= 0 THEN NaN ELSE RootUp(0, MaxFl + 1, e, q)

(***************************************************************************)
(* Tensors: a shape (a tuple of sizes) and the elements in row-major       *)
(* order.  reshape keeps the elements and changes the shape; one size may  *)
(* be -1 and is then inferred.                                             *)
(***************************************************************************)
RECURSIVE Prod(_)
Prod(shape) == IF shape = <<>> THEN 1 ELSE Head(shape) * Prod(Tail(shape))

Numel(x) == Len(x.data)
Tensor(shape, data) == [shape |-> shape, data |-> data]
Raised == [shape |-> <<-1>>, data |-> <<>>]

\* x.reshape(-1)
Flatten(x) == Tensor(<<Numel(x)>>, x.data)

\* x.reshape(shape), every size of shape given; Raised on a size mismatch.
Reshape(x, shape) == IF Prod(shape) = Numel(x) THEN Tensor(shape, x.data) ELSE Raised

\* x.reshape(-1, *shape): Raised when the leading size cannot be inferred.
ReshapeLead(x, shape) ==
    LET p == Prod(shape)
    IN  IF p = 0 \/ Numel(x) % p # 0 THEN Raised
        ELSE Tensor(<<Numel(x) \div p>> \o shape, x.data)

\* x[i] of a tensor with at least one dimension (i from 0).
Entry(x, i) ==
    LET sh == Tail(x.shape)
        p == Prod(sh)
    IN  Tensor(sh, SubSeq(x.data, i * p + 1, (i + 1) * p))

RECURSIVE SumSq(_)
SumSq(v) == IF v = <<>> THEN 0 ELSE Add(Mul(Head(v), Head(v)), SumSq(Tail(v)))
\* v.norm(): the Euclidean norm of a flat vector.
Norm(v) == Sqrt(SumSq(v))

RECURSIVE Build(_, _)
\* The tuple <<F(1), ..., F(n)>>.
Build(F(_), n) == IF n = 0 THEN <<>> ELSE Append(Build(F, n - 1), F(n))

VecAdd(u, v) == LET F(j) == Add(u[j], v[j]) IN Build(F, Len(u))
VecScale(u, k) == LET F(j) == Mul(u[j], k) IN Build(F, Len(u))
VecNeg(u) == LET F(j) == Neg(u[j]) IN Build(F, Len(u))

RECURSIVE Dot(_, _, _, _)
\* Element j of matmul(K[:s].T, a[:s]): sum over i < s of K[i][j] * a[i].
Dot(K, a, s, j) ==
    IF s = 0 THEN 0
    ELSE IF s = 1 THEN Mul(K[1][j], a[1])
    ELSE Add(Dot(K, a, s - 1, j), Mul(K[s][j], a[s]))

\* matmul(K[:s].T, a[:s]) for rows of length n.
MatVec(K, a, s, n) == LET F(j) == Dot(K, a, s, j) IN Build(F, n)

(***************************************************************************)
(* The tableau registry: the class attributes of RK23 and RK45.            *)
(***************************************************************************)
LitRow(row) == LET F(k) == Lit(row[k][1], row[k][2]) IN Build(F, Len(row))
LitMat(m) == LET F(k) == LitRow(m[k]) IN Build(F, Len(m))

RK23 ==
    [error_estimator_order |-> 2,
     n_stages |-> 3,
     C |-> LitRow(<< <<0, 1>>, <<1, 2>>, <<3, 4>> >>),
     A |-> LitMat(<< << <<0, 1>>, <<0, 1>>, <<0, 1>> >>,
                     << <<1, 2>>, <<0, 1>>, <<0, 1>> >>,
                     << <<0, 1>>, <<3, 4>>, <<0, 1>> >> >>),
     B |-> LitRow(<< <<2, 9>>, <<1, 3>>, <<4, 9>> >>),
     E |-> LitRow(<< <<5, 72>>, <<-1, 12>>, <<-1, 9>>, <<1, 8>> >>)]

RK45 ==
    [error_estimator_order |-> 4,
     n_stages |-> 6,
     C |-> LitRow(<< <<0, 1>>, <<1, 5>>, <<3, 10>>, <<4, 5>>, <<8, 9>>, <<1, 1>> >>),
     A |-> LitMat(<<
        << <<0, 1>>, <<0, 1>>, <<0, 1>>, <<0, 1>>, <<0, 1>> >>,
        << <<1, 5>>, <<0, 1>>, <<0, 1>>, <<0, 1>>, <<0, 1>> >>,
        << <<3, 40>>, <<9, 40>>, <<0, 1>>, <<0, 1>>, <<0, 1>> >>,
        << <<44, 45>>, <<-56, 15>>, <<32, 9>>, <<0, 1>>, <<0, 1>> >>,
        << <<19372, 6561>>, <<-25360, 2187>>, <<64448, 6561>>, <<-212, 729>>, <<0, 1>> >>,
        << <<9017, 3168>>, <<-355, 33>>, <<46732, 5247>>, <<49, 176>>, <<-5103, 18656>> >> >>),
     B |-> LitRow(<< <<35, 384>>, <<0, 1>>, <<500, 1113>>, <<125, 192>>,
                     <<-2187, 6784>>, <<11, 84>> >>),
     E |-> LitRow(<< <<-71, 57600>>, <<0, 1>>, <<71, 16695>>, <<-71, 1920>>,
                     <<17253, 339200>>, <<-22, 525>>, <<1, 40>> >>)]

Registry == [rk23 |-> RK23, rk45 |-> RK45]

(***************************************************************************)
(* The caller's derivative function fcn(t, y, *params): a member of a      *)
(* small family, applied to every element of y, returning y's shape.       *)
(*   lin: a * t + b * y + c     nan: a non-finite value everywhere         *)
(* With mirror set it is the function g(t, y) = -f(-t, y) of such an f.    *)
(* ret is the shape it returns its values in:                              *)
(*   same: the shape of y           other: (1,) + the shape of y           *)
(*   one: a single element          more: one element more than y has      *)
(***************************************************************************)
Returned(fcn, v) ==
    CASE fcn.ret = "other" -> Tensor(<<1>> \o v.shape, v.data)
      [] fcn.ret = "one" -> Tensor(<<1>>, <<IF v.data = <<>> THEN fcn.c ELSE v.data[1]>>)
      [] fcn.ret = "more" -> Tensor(<<Numel(v) + 1>>, Append(v.data, fcn.c))
      [] OTHER -> v

FcnBase(fcn, t, y) ==
    LET F(j) == IF fcn.kind = "nan" THEN NaN
                ELSE Add(Add(Mul(fcn.a, t), Mul(fcn.b, y.data[j])), fcn.c)
    IN  Returned(fcn, Tensor(y.shape, Build(F, Numel(y))))

FcnCall(fcn, t, y) ==
    IF fcn.mirror
    THEN Tensor(FcnBase(fcn, Neg(t), y).shape, VecNeg(FcnBase(fcn, Neg(t), y).data))
    ELSE FcnBase(fcn, t, y)

\* The lambda setup stores in self.func, applied to a flat y.
Func(sv, t, y) ==
    IF sv.flip
    THEN VecNeg(Flatten(FcnCall(sv.fcn, Neg(t), Reshape(Tensor(<<Len(y)>>, y), sv.yshape))).data)
    ELSE Flatten(FcnCall(sv.fcn, t, Reshape(Tensor(<<Len(y)>>, y), sv.yshape))).data

\* K[s] = v for a row of n elements: a single element is broadcast.
Store(v, n) ==
    LET F(j) == v[1]
    IN  IF Len(v) = n THEN v ELSE Build(F, n)

\* K[s] = v raises: v has neither n elements nor one.
StoreRaises(v, n) == Len(v) # n /\ Len(v) # 1

RECURSIVE StageLoop(_, _, _, _, _, _, _)
\* The for loop of rk_step from stage s on: [K, calls] after the last stage.
StageLoop(sv, t, y, h, K, calls, s) ==
    IF s + 1 > Len(sv.A) \/ s + 1 > Len(sv.C) THEN [K |-> K, calls |-> calls]
    ELSE LET a == sv.A[s + 1]
             c == sv.C[s + 1]
             dy == VecScale(MatVec(K, a, s, Len(y)), h)
             tc == Add(t, Mul(c, h))
             yc == VecAdd(y, dy)
         IN  StageLoop(sv, t, y, h, [K EXCEPT ![s + 1] = Store(Func(sv, tc, yc), Len(y))],
                       Append(calls, [t |-> tc, y |-> yc]), s + 1)

\* K[-1] = fnew; return ynew, fnew (with the buffer and the calls made to func).
RkReturn(st, tn, ynew, fnew) ==
    [ynew |-> ynew, fnew |-> fnew,
     K |-> [st.K EXCEPT ![Len(st.K)] = Store(fnew, Len(ynew))],
     calls |-> Append(st.calls, [t |-> tn, y |-> ynew])]

\* RkLast evaluating func at the start time of the step.
RkLastAtStart(sv, t, h, st, ynew) == RkReturn(st, Add(t, h), ynew, Func(sv, t, ynew))

\* fnew = func(t + h, ynew)
RkLast(sv, t, h, st, ynew) == RkReturn(st, Add(t, h), ynew, Func(sv, Add(t, h), ynew))

\* ynew = y + h * torch.matmul(K[:-1].T, B)
RkCombine(sv, t, y, h, st) ==
    RkLast(sv, t, h, st, VecAdd(y, VecScale(MatVec(st.K, sv.B, Len(st.K) - 1, Len(y)), h)))

\* RkStep whose loop starts at the third row of the tableau.
RkStepSkipsStage(sv, t, y, f, h) ==
    RkCombine(sv, t, y, h,
              StageLoop(sv, t, y, h, [sv.K EXCEPT ![1] = Store(f, Len(y))], <<>>, 2))

\* rk_step(self.func, t, y, f, h, (self.A, self.B, self.C, self.K)):
\* ynew, fnew, the buffer K as it leaves it, and the calls made to func.
RkStep(sv, t, y, f, h) ==
    RkCombine(sv, t, y, h,
              StageLoop(sv, t, y, h, [sv.K EXCEPT ![1] = Store(f, Len(y))], <<>>, 1))

\* self._error_norm(K, h)
ErrorNorm(sv, K, h) == Norm(VecScale(MatVec(K, sv.E, Len(K), Len(K[1])), h))

\* PyMax as torch.max has it: non-finite when an argument is.
MaxOrNaN(a, b) == Max(a, b)

\* Python's min(a, b) and max(a, b): the second argument only when it compares so.
PyMin(a, b) == IF Lt(b, a) THEN b ELSE a
PyMax(a, b) == IF Gt(b, a) THEN b ELSE a

(***************************************************************************)
(* The state.  solver maps each live RKAdaptiveStepSolver object (one per  *)
(* call of _rk_adaptive) to its attributes, the arguments of its setup     *)
(* call, the locals of solve, _step and _single_step, and the place the    *)
(* call has reached.  classes holds the class attributes of RK23 and RK45. *)
(***************************************************************************)
VARIABLES solver, classes

vars == <<solver, classes>>

\* Bounds of the inputs.
MaxGridLen == 3
MaxGarbage == 1

\* The grids: every sequence of 2..MaxGridLen of these times, monotonic or
\* not.  12 + (152 - 12) rounds to 160, above 152.
Times == {0, 12, 152}
Grids == UNION {[1..n -> Times] : n \in 2..MaxGridLen}

Decay == [kind |-> "lin", a |-> 0, b |-> -8 * Unit, c |-> 0, mirror |-> FALSE,
    ret |-> "same"]
Grow == [kind |-> "lin", a |-> 0, b |-> Unit, c |-> 0, mirror |-> FALSE,
    ret |-> "same"]
TPlusY == [kind |-> "lin", a |-> Unit, b |-> Unit, c |-> 0, mirror |-> FALSE,
    ret |-> "same"]
Const == [kind |-> "lin", a |-> 0, b |-> 0, c |-> 2 * Unit, mirror |-> FALSE,
    ret |-> "same"]
NonFinite == [kind |-> "nan", a |-> 0, b |-> 0, c |-> 0, mirror |-> FALSE,
    ret |-> "same"]
\* TPlusY returning its values in another shape.
Reshaped(ret) == [TPlusY EXCEPT !.ret = ret]
Fine == [atol |-> 1, rtol |-> 1]
Loose == [atol |-> 16, rtol |-> 8]

\* The calls: the solver class, the tolerances, fcn and y0 of each.
Profile(cls, tol, fcn, y0) == [cls |-> cls, tol |-> tol, fcn |-> fcn, y0 |-> y0]
Profiles ==
    {Profile("rk23", Fine, Decay, Tensor(<<1>>, <<Unit>>)),
     Profile("rk45", Fine, Grow, Tensor(<<1>>, <<Unit>>)),
     Profile("rk23", Fine, TPlusY, Tensor(<<2, 1>>, <<0, Unit>>)),
     Profile("rk45", Loose, TPlusY, Tensor(<<>>, <<0>>)),
     Profile("rk23", Loose, Decay, Tensor(<<>>, <<Unit>>)),
     Profile("rk45", Fine, Decay, Tensor(<<2, 1>>, <<Unit, -Unit>>)),
     Profile("rk23", Fine, NonFinite, Tensor(<<1>>, <<Unit>>)),
     Profile("rk45", Loose, NonFinite, Tensor(<<2, 1>>, <<0, Unit>>)),
     Profile("rk23", Fine, Const, Tensor(<<0>>, <<>>)),
     Profile("rk45", Fine, Const, Tensor(<<1>>, <<0>>)),
     Profile("rk23", Loose, Reshaped("other"), Tensor(<<2, 1>>, <<0, Unit>>)),
     Profile("rk23", Loose, Reshaped("one"), Tensor(<<2, 1>>, <<0, Unit>>)),
     Profile("rk23", Loose, Reshaped("more"), Tensor(<<1>>, <<Unit>>))}

\* What torch.empty may hold.
Garbage == {NaN} \cup (0..(MaxGarbage - 1))

\* cls(atol=atol, rtol=rtol) followed by the arguments of solver.setup(...).
New(cls, tol, fcn, ts, y0) ==
    [pc |-> "setup", cls |-> cls,
     atol |-> tol.atol, rtol |-> tol.rtol,
     max_factor |-> Lit(10, 1), min_factor |-> Lit(2, 10), step_mult |-> Lit(9, 10),
     root |-> classes[cls].error_estimator_order + 1,
     fcn |-> fcn, arg_ts |-> ts, arg_y0 |-> y0,
     yshape |-> <<>>, y0 |-> <<>>, ts |-> <<>>, flip |-> FALSE,
     K |-> <<>>, A |-> <<>>, B |-> <<>>, C |-> <<>>, E |-> <<>>,
     yt |-> <<>>, i |-> 0,
     rk_state |-> [f |-> <<>>, t |-> 0, y |-> <<>>, h |-> 0],
     t1 |-> 0, t1_achieved |-> FALSE,
     accepted |-> FALSE, prev_rejected |-> FALSE,
     f0 |-> <<>>, t0 |-> 0, y0s |-> <<>>, h |-> 0,
     achieved |-> FALSE, hstep |-> 0, tnew |-> 0, errnorm |-> 0,
     result |-> Raised,
     \* History, not program state: the calls of func by the last attempt,
     \* whether the attempt before it was rejected and with which step size,
     \* whether any attempt was accepted or rejected so far, and the grid
     \* index, target time, time and value of every recording.
     calls |-> <<>>, after_reject |-> FALSE, rej_hstep |-> 0,
     acc_seen |-> FALSE, rej_seen |-> FALSE, rec |-> <<>>]

Init ==
    /\ classes = Registry
    /\ \E p \in Profiles, ts \in Grids :
          solver = [s \in {1} |-> New(p.cls, p.tol, p.fcn, ts, p.y0)]

Rows(m, n, g) ==
    LET Elem(j) == g
        Row(r) == Build(Elem, n)
    IN  Build(Row, m)

\* SetupR negating the grid and not the function.
SetupNoWrap(sv, g) ==
    LET direction == Sub(sv.arg_ts[2], sv.arg_ts[1])
        c == classes[sv.cls]
    IN  [sv EXCEPT
            !.yshape = sv.arg_y0.shape,
            !.y0 = Flatten(sv.arg_y0).data,
            !.ts = IF Lt(direction, 0) THEN VecNeg(sv.arg_ts) ELSE sv.arg_ts,
            !.flip = FALSE,
            !.K = Rows(c.n_stages + 1, Numel(sv.arg_y0), g),
            !.A = c.A, !.B = c.B, !.C = c.C, !.E = c.E,
            !.pc = "solve"]

\* solver.setup(fcn, ts, y0, params), the uninitialised K holding g.
SetupR(sv, g) ==
    LET direction == Sub(sv.arg_ts[2], sv.arg_ts[1])
        c == classes[sv.cls]
    IN  [sv EXCEPT
            !.yshape = sv.arg_y0.shape,
            !.y0 = Flatten(sv.arg_y0).data,
            !.ts = IF Lt(direction, 0) THEN VecNeg(sv.arg_ts) ELSE sv.arg_ts,
            !.flip = Lt(direction, 0),
            !.K = Rows(c.n_stages + 1, Numel(sv.arg_y0), g),
            !.A = c.A, !.B = c.B, !.C = c.C, !.E = c.E,
            !.pc = "solve"]

\* SetupClass storing the tableau it converted in the class, one bit shorter.
SetupClassNarrowed(cl, sv) ==
    LET Half(x) == 2 * (x \div 2)
        B == cl[sv.cls].B
        F(j) == Half(B[j])
    IN  [cl EXCEPT ![sv.cls].B = Build(F, Len(B))]

\* The class attributes after setup: self.A = self.A.to(...) and the like
\* bind attributes of the object and leave those of its class as they are.
SetupClass(cl, sv) == cl

Setup(s) ==
    /\ solver[s].pc = "setup"
    /\ \E g \in Garbage : solver' = [solver EXCEPT ![s] = SetupR(solver[s], g)]
    /\ classes' = SetupClass(classes, solver[s])

\* solve() up to the for loop, the uninitialised yt holding g.
SolveBeginR(sv, g) ==
    LET t0 == sv.ts[1]
        f0 == Func(sv, t0, sv.y0)
        h0 == Sub(sv.ts[2], sv.ts[1])
    IN  [sv EXCEPT
            !.yt = [Rows(Len(sv.ts), Len(sv.y0), g) EXCEPT ![1] = sv.y0],
            !.rk_state = [f |-> f0, t |-> t0, y |-> sv.y0, h |-> h0],
            !.i = 1,
            !.pc = "for"]

SolveBegin(s) ==
    /\ solver[s].pc = "solve"
    /\ \E g \in Garbage : solver' = [solver EXCEPT ![s] = SolveBeginR(solver[s], g)]
    /\ UNCHANGED classes

\* for i in range(1, len(ts)): the call self._step(rk_state, ts[i]).
StepCallR(sv) ==
    [sv EXCEPT !.t1 = sv.ts[sv.i + 1], !.t1_achieved = FALSE, !.pc = "while"]

StepCall(s) ==
    /\ solver[s].pc = "for"
    /\ solver[s].i < Len(solver[s].ts)
    /\ solver' = [solver EXCEPT ![s] = StepCallR(solver[s])]
    /\ UNCHANGED classes

RECURSIVE Concat(_)
Concat(rows) == IF rows = <<>> THEN <<>> ELSE Head(rows) \o Concat(Tail(rows))

\* ReturnR without the reshape: return yt.
ReturnFlat(sv) ==
    [sv EXCEPT !.result = Tensor(<<Len(sv.ts), Len(sv.y0)>>, Concat(sv.yt)),
               !.pc = "done"]

\* return yt.reshape(-1, *self.yshape)
ReturnR(sv) ==
    LET yt == Tensor(<<Len(sv.ts), Len(sv.y0)>>, Concat(sv.yt))
        res == ReshapeLead(yt, sv.yshape)
    IN  [sv EXCEPT !.result = res, !.pc = IF res = Raised THEN "raised" ELSE "done"]

Return(s) ==
    /\ solver[s].pc = "for"
    /\ solver[s].i >= Len(solver[s].ts)
    /\ solver' = [solver EXCEPT ![s] = ReturnR(solver[s])]
    /\ UNCHANGED classes

\* while not t1_achieved: the call self._single_step(rk_state, t1), to its loop.
SingleStepCallR(sv) ==
    [sv EXCEPT
        !.f0 = sv.rk_state.f, !.t0 = sv.rk_state.t,
        !.y0s = sv.rk_state.y, !.h = sv.rk_state.h,
        !.accepted = FALSE, !.prev_rejected = FALSE,
        !.pc = "attempt"]

SingleStepCall(s) ==
    /\ solver[s].pc = "while"
    /\ ~solver[s].t1_achieved
    /\ solver' = [solver EXCEPT ![s] = SingleStepCallR(solver[s])]
    /\ UNCHANGED classes

\* RecordR storing one row early: yt[i - 1] = rk_state[2].
RecordEarly(sv) ==
    [sv EXCEPT !.yt[sv.i] = sv.rk_state.y, !.i = sv.i + 1, !.pc = "for",
               !.rec = Append(@, [i |-> sv.i, t1 |-> sv.t1, t |-> sv.rk_state.t,
                                  y |-> sv.rk_state.y])]

\* _step returns rk_state; yt[i] = rk_state[2]; next i.
RecordR(sv) ==
    [sv EXCEPT !.yt[sv.i + 1] = sv.rk_state.y, !.i = sv.i + 1, !.pc = "for",
               !.rec = Append(@, [i |-> sv.i, t1 |-> sv.t1, t |-> sv.rk_state.t,
                                  y |-> sv.rk_state.y])]

Record(s) ==
    /\ solver[s].pc = "while"
    /\ solver[s].t1_achieved
    /\ solver' = [solver EXCEPT ![s] = RecordR(solver[s])]
    /\ UNCHANGED classes

\* AdjustStep leaving the step it used after an accepted terminal attempt.
AdjustTerminalUsed(sv, h, hstep, errnorm, accepted, achieved) ==
    LET grown == Mul(sv.step_mult, PowInv(errnorm, sv.root))
        factor == IF errnorm = 0 THEN sv.max_factor ELSE PyMin(sv.max_factor, grown)
        capped == IF sv.prev_rejected THEN PyMin(Lit(1, 1), factor) ELSE factor
    IN  IF accepted /\ ~achieved THEN Mul(h, capped)
        ELSE IF ~accepted THEN Mul(hstep, PyMax(sv.min_factor, grown))
        ELSE hstep

\* AdjustStep without the safety factor step_mult.
AdjustNoSafety(sv, h, hstep, errnorm, accepted, achieved) ==
    LET grown == PowInv(errnorm, sv.root)
        factor == IF errnorm = 0 THEN sv.max_factor ELSE PyMin(sv.max_factor, grown)
        capped == IF sv.prev_rejected THEN PyMin(Lit(1, 1), factor) ELSE factor
    IN  IF accepted /\ ~achieved THEN Mul(h, capped)
        ELSE IF ~accepted THEN Mul(hstep, PyMax(sv.min_factor, grown))
        ELSE h

\* AdjustStep without the cap that follows a rejection.
AdjustUncapped(sv, h, hstep, errnorm, accepted, achieved) ==
    LET grown == Mul(sv.step_mult, PowInv(errnorm, sv.root))
        factor == IF errnorm = 0 THEN sv.max_factor ELSE PyMin(sv.max_factor, grown)
    IN  IF accepted /\ ~achieved THEN Mul(h, factor)
        ELSE IF ~accepted THEN Mul(hstep, PyMax(sv.min_factor, grown))
        ELSE h

\* The step size the attempt leaves in h.
AdjustStep(sv, h, hstep, errnorm, accepted, achieved) ==
    LET grown == Mul(sv.step_mult, PowInv(errnorm, sv.root))
        factor == IF errnorm = 0 THEN sv.max_factor ELSE PyMin(sv.max_factor, grown)
        capped == IF sv.prev_rejected THEN PyMin(Lit(1, 1), factor) ELSE factor
    IN  IF accepted /\ ~achieved THEN Mul(h, capped)
        ELSE IF ~accepted THEN Mul(hstep, PyMax(sv.min_factor, grown))
        ELSE h

\* Achieved as t1_achieved = t0 + h >= t1.
AchievedAtTarget(sv) == ~Lt(Add(sv.t0, sv.h), sv.t1)
\* t1_achieved = t0 + h > t1
Achieved(sv) == Gt(Add(sv.t0, sv.h), sv.t1)
\* hstep = t1 - t0 if t1_achieved else h
HStep(sv) == IF Achieved(sv) THEN Sub(sv.t1, sv.t0) ELSE sv.h
\* Accepted as accepted = not errnorm > 1.
AcceptedUnlessAbove(errnorm) == ~Gt(errnorm, Lit(1, 1))
\* accepted = errnorm < 1
Accepted(errnorm) == Lt(errnorm, Lit(1, 1))

\* scale = self.atol + torch.max(y0.norm(), ynew.norm()) * self.rtol
Scale(sv, ynew) == Add(sv.atol, Mul(Max(Norm(sv.y0s), Norm(ynew)), sv.rtol))

\* AttemptEnd keeping the last derivative of a rejected attempt as f0.
AttemptEndTakesF(sv, achieved, hstep, rk, errnorm, h) ==
    [sv EXCEPT
        !.K = rk.K, !.calls = rk.calls,
        !.achieved = achieved, !.hstep = hstep, !.tnew = Add(sv.t0, hstep),
        !.errnorm = errnorm, !.accepted = Accepted(errnorm),
        !.h = h, !.prev_rejected = ~Accepted(errnorm),
        !.f0 = rk.fnew,
        !.rk_state = IF Accepted(errnorm)
                     THEN [f |-> rk.fnew, t |-> Add(sv.t0, hstep), y |-> rk.ynew, h |-> h]
                     ELSE @,
        !.t1_achieved = IF Accepted(errnorm) THEN achieved ELSE @,
        !.after_reject = sv.prev_rejected,
        !.rej_hstep = IF Accepted(errnorm) THEN @ ELSE hstep,
        !.acc_seen = @ \/ Accepted(errnorm),
        !.rej_seen = @ \/ ~Accepted(errnorm),
        !.pc = IF Accepted(errnorm) THEN "while" ELSE "attempt"]

\* The end of a pass of the loop, and the return when it accepted.
AttemptEnd(sv, achieved, hstep, rk, errnorm, h) ==
    [sv EXCEPT
        !.K = rk.K, !.calls = rk.calls,
        !.achieved = achieved, !.hstep = hstep, !.tnew = Add(sv.t0, hstep),
        !.errnorm = errnorm, !.accepted = Accepted(errnorm),
        !.h = h, !.prev_rejected = ~Accepted(errnorm),
        !.rk_state = IF Accepted(errnorm)
                     THEN [f |-> rk.fnew, t |-> Add(sv.t0, hstep), y |-> rk.ynew, h |-> h]
                     ELSE @,
        !.t1_achieved = IF Accepted(errnorm) THEN achieved ELSE @,
        !.after_reject = sv.prev_rejected,
        !.rej_hstep = IF Accepted(errnorm) THEN @ ELSE hstep,
        !.acc_seen = @ \/ Accepted(errnorm),
        !.rej_seen = @ \/ ~Accepted(errnorm),
        !.pc = IF Accepted(errnorm) THEN "while" ELSE "attempt"]

\* adjust the step size
AttemptAdjust(sv, achieved, hstep, rk, errnorm) ==
    AttemptEnd(sv, achieved, hstep, rk, errnorm,
               AdjustStep(sv, sv.h, hstep, errnorm, Accepted(errnorm), achieved))

\* errnorm = self._error_norm(self.K, hstep) / scale
AttemptError(sv, achieved, hstep, rk) ==
    AttemptAdjust(sv, achieved, hstep, rk,
                  Div(ErrorNorm(sv, rk.K, hstep), Scale(sv, rk.ynew)))

\* ynew, fnew = rk_step(self.func, t0, y0, f0, hstep, abck)
AttemptStep(sv, achieved, hstep) ==
    AttemptError(sv, achieved, hstep, RkStep(sv, sv.t0, sv.y0s, sv.f0, hstep))

\* One pass of the while loop of _single_step and, when it accepts, the
\* return; K[0] = f of rk_step raises for an f of another length.
AttemptR(sv) ==
    IF StoreRaises(sv.f0, Len(sv.y0s)) THEN [sv EXCEPT !.pc = "raised"]
    ELSE AttemptStep(sv, Achieved(sv), HStep(sv))

Attempt(s) ==
    /\ solver[s].pc = "attempt"
    /\ solver' = [solver EXCEPT ![s] = AttemptR(solver[s])]
    /\ UNCHANGED classes

Solvers == DOMAIN solver

Next ==
    \/ \E s \in Solvers : Setup(s)
    \/ \E s \in Solvers : SolveBegin(s)
    \/ \E s \in Solvers : StepCall(s)
    \/ \E s \in Solvers : SingleStepCall(s)
    \/ \E s \in Solvers : Attempt(s)
    \/ \E s \in Solvers : Record(s)
    \/ \E s \in Solvers : Return(s)

Spec == Init /\ [][Next]_vars

\* An attempt that would leave the solver as it is: the attempt before it was
\* rejected after a rejected one, and gave back the step it was given, so
\* this one repeats it from the same frame.
Stalled(sv) ==
    /\ sv.pc = "attempt" /\ sv.prev_rejected /\ sv.after_reject
    /\ Achieved(sv) = sv.achieved /\ HStep(sv) = sv.hstep
    /\ ~StoreRaises(sv.f0, Len(sv.y0s))

\* Stalled is exactly the case in which an attempt changes nothing.
StalledIsNoChange ==
    \A s \in Solvers :
        solver[s].pc = "attempt" => (Stalled(solver[s]) <=> AttemptR(solver[s]) = solver[s])

\* The steps of a call that do not evaluate fcn.
Bookkeeping ==
    \/ \E s \in Solvers : Setup(s)
    \/ \E s \in Solvers : StepCall(s)
    \/ \E s \in Solvers : SingleStepCall(s)
    \/ \E s \in Solvers : Record(s)
    \/ \E s \in Solvers : Return(s)

\* A step that evaluates fcn (SolveBegin or Attempt) can be taken and would
\* change the state.
Computing ==
    \/ solver[1].pc = "solve"
    \/ solver[1].pc = "attempt" /\ ~Stalled(solver[1])

\* A call that has not returned or raised goes on: the interpreter runs the
\* next statement of solve. This is weak fairness of every step; for the two
\* steps that evaluate fcn it is written out, WF_v(A) being
\* []<>~ENABLED <<A>>_v \/ []<><<A>>_v, with Computing for the enabling and
\* the position the step leaves for the step itself.
FairSpec ==
    /\ Spec
    /\ WF_vars(Bookkeeping)
    /\ []<>(~Computing) \/ []<><<solver[1].pc \in {"solve", "attempt"}>>_vars

(***************************************************************************)
(* Two calls side by side: solver 1 is given a strictly decreasing grid ts *)
(* and a function fcn, solver 2 the grid -ts and g(t, y) = -fcn(-t, y).    *)
(* Each step of the pair is the next step of both calls.                   *)
(***************************************************************************)
Decreasing(ts) == \A j \in 1..(Len(ts) - 1) : ts[j + 1] < ts[j]
Increasing(ts) == \A j \in 1..(Len(ts) - 1) : ts[j] < ts[j + 1]
NonDecreasing(ts) == \A j \in 1..(Len(ts) - 1) : ts[j] <= ts[j + 1]
NonIncreasing(ts) == \A j \in 1..(Len(ts) - 1) : ts[j + 1] <= ts[j]

Mirrored(fcn) == [fcn EXCEPT !.mirror = TRUE]

MirrorInit ==
    /\ classes = Registry
    /\ \E p \in Profiles, ts \in {g \in Grids : Decreasing(g)} :
          solver = [s \in {1, 2} |->
                      IF s = 1 THEN New(p.cls, p.tol, p.fcn, ts, p.y0)
                      ELSE New(p.cls, p.tol, Mirrored(p.fcn), VecNeg(ts), p.y0)]

\* The next step of one call, or the call as it is once it has returned.
StepR(sv, g) ==
    CASE sv.pc = "setup" -> SetupR(sv, g)
      [] sv.pc = "solve" -> SolveBeginR(sv, g)
      [] sv.pc = "for" -> IF sv.i < Len(sv.ts) THEN StepCallR(sv) ELSE ReturnR(sv)
      [] sv.pc = "while" -> IF sv.t1_achieved THEN RecordR(sv) ELSE SingleStepCallR(sv)
      [] sv.pc = "attempt" -> AttemptR(sv)
      [] OTHER -> sv

\* What the memory allocated by the next step of a call may hold.
Alloc(sv) == IF sv.pc \in {"setup", "solve"} THEN Garbage ELSE {NaN}

\* The class attributes after the next step of a call.
StepClass(cl, sv) == IF sv.pc = "setup" THEN SetupClass(cl, sv) ELSE cl

BothStep ==
    /\ \E s \in Solvers : solver[s].pc \notin {"done", "raised"}
    /\ \E g1 \in Alloc(solver[1]), g2 \in Alloc(solver[2]) :
          solver' = [s \in Solvers |-> StepR(solver[s], IF s = 1 THEN g1 ELSE g2)]
    /\ classes' = StepClass(StepClass(classes, solver[1]), solver[2])

MirrorNext == BothStep

MirrorSpec == MirrorInit /\ [][MirrorNext]_vars

(***************************************************************************)
(* Two calls of _rk_adaptive whose steps interleave in any order, as those *)
(* of two threads do.                                                      *)
(***************************************************************************)
PairProfiles ==
    {Profile("rk23", Fine, Decay, Tensor(<<1>>, <<Unit>>)),
     Profile("rk45", Fine, Decay, Tensor(<<2, 1>>, <<Unit, -Unit>>))}
PairGrids == {<<0, 12>>, <<12, 0>>}

PairInit ==
    /\ classes = Registry
    /\ \E p1 \in PairProfiles, p2 \in PairProfiles, ts1 \in PairGrids, ts2 \in PairGrids :
          solver = [s \in {1, 2} |->
                      IF s = 1 THEN New(p1.cls, p1.tol, p1.fcn, ts1, p1.y0)
                      ELSE New(p2.cls, p2.tol, p2.fcn, ts2, p2.y0)]

PairSpec == PairInit /\ [][Next]_vars

(***************************************************************************)
(* Properties.                                                             *)
(***************************************************************************)
\* The caller's grid time of index i (from 0) as the solver holds it.
GridTime(sv, i) == IF sv.flip THEN Neg(sv.arg_ts[i + 1]) ELSE sv.arg_ts[i + 1]

\* C1: from the moment solve() has stored it, row 0 of the output buffer
\* holds the caller's y0 unchanged, whatever sub-steps were accepted or
\* rejected since, and entry 0 of the returned trajectory is y0 exactly.
C1_InitialValuePreserved ==
    \A s \in Solvers :
        LET sv == solver[s]
        IN  /\ sv.pc \in {"for", "while", "attempt", "done", "raised"}
                  => sv.yt[1] = Flatten(sv.arg_y0).data
            /\ sv.pc = "done" => Entry(sv.result, 0) = sv.arg_y0

\* solve() has returned after rejected and accepted sub-steps that moved the
\* state away from y0.
C1_Witness ==
    \E s \in Solvers :
        /\ solver[s].pc = "done"
        /\ solver[s].rej_seen /\ solver[s].acc_seen
        /\ Entry(solver[s].result, 1) # solver[s].arg_y0

\* C2: whenever solve() returns, the trajectory has one entry per entry of
\* the caller's ts, entry i has the shape of y0 and is the state recorded
\* for grid time ts[i], and the recordings were made once each, in the order
\* of the grid.
C2_OneStatePerGridPoint ==
    \A s \in Solvers :
        LET sv == solver[s]
            nt == Len(sv.arg_ts)
        IN  sv.pc = "done" =>
              /\ sv.result.shape = <<nt>> \o sv.arg_y0.shape
              /\ Numel(sv.result) = nt * Numel(sv.arg_y0)
              /\ Len(sv.rec) = nt - 1
              /\ \A i \in 1..(nt - 1) :
                    /\ Entry(sv.result, i).shape = sv.arg_y0.shape
                    /\ sv.rec[i].i = i
                    /\ sv.rec[i].t1 = GridTime(sv, i)
                    /\ Entry(sv.result, i).data = sv.rec[i].y

\* solve() has returned for a decreasing grid of three times and a y0 of
\* shape (2, 1).
C2_Witness ==
    \E s \in Solvers :
        /\ solver[s].pc = "done"
        /\ solver[s].flip
        /\ Len(solver[s].arg_ts) = 3
        /\ solver[s].arg_y0.shape = <<2, 1>>

\* f, t and y of a step state.
Point(st) == <<st.f, st.t, st.y>>

\* C3: a step that changes (f, t, y) of the step state is an attempt that
\* was accepted with an error norm strictly below 1, that norm being the one
\* of the attempt's own stage buffer and used step size, and the new time is
\* the old one plus that step size; an attempt whose error norm is not below
\* 1 leaves the step state as it was.
C3_OnlyAcceptedAdvance ==
    [][\A s \in Solvers :
          /\ (solver[s].pc # "solve" /\ Point(solver'[s].rk_state) # Point(solver[s].rk_state))
                => /\ solver[s].pc = "attempt"
                   /\ solver'[s].accepted
                   /\ Lt(solver'[s].errnorm, Lit(1, 1))
                   /\ solver'[s].errnorm =
                         Div(ErrorNorm(solver[s], solver'[s].K, solver'[s].hstep),
                             Scale(solver[s], solver'[s].rk_state.y))
                   /\ solver'[s].rk_state.t = Add(solver[s].rk_state.t, solver'[s].hstep)
          /\ (solver[s].pc = "attempt" /\ ~Lt(solver'[s].errnorm, Lit(1, 1)))
                => solver'[s].rk_state = solver[s].rk_state]_vars

\* An attempt that follows a rejected one was accepted with a nonzero error
\* norm and moved the time.
C3_Witness ==
    \E s \in Solvers :
        /\ solver[s].pc = "while"
        /\ solver[s].accepted /\ solver[s].after_reject
        /\ solver[s].errnorm > 0
        /\ solver[s].rk_state.t > solver[s].t0

\* C4: on a strictly increasing or strictly decreasing grid the time of the
\* step state never exceeds the target t_next of the interval once a
\* sub-step was accepted, an attempt whose candidate overshoots uses
\* t_next - t_current, and every value is recorded with the time of the
\* step state equal to its grid time exactly.
C4_LandsOnGridPoint ==
    \A s \in Solvers :
        LET sv == solver[s]
        IN  (Increasing(sv.arg_ts) \/ Decreasing(sv.arg_ts)) =>
              /\ (sv.pc \in {"while", "attempt"} /\ sv.acc_seen)
                    => sv.rk_state.t <= sv.t1
              /\ (sv.pc \in {"while", "attempt"} /\ sv.achieved)
                    => sv.hstep = Sub(sv.t1, sv.t0)
              /\ \A k \in 1..Len(sv.rec) : sv.rec[k].t = sv.rec[k].t1

\* C5: an accepted sub-step of positive length that ends at exactly t_next
\* ends the interval: the target is achieved with it, so that the value is
\* recorded without another attempt, and the step size it returns is the
\* candidate it was given, not a grown one.
C5_ExactLandingEndsInterval ==
    [][\A s \in Solvers :
          (/\ solver[s].pc = "attempt"
           /\ solver'[s].accepted
           /\ solver'[s].hstep > 0
           /\ solver'[s].rk_state.t = solver[s].t1)
             => /\ solver'[s].t1_achieved
                /\ solver'[s].rk_state.h = solver[s].h]_vars

\* C6: an accepted attempt that directly follows a rejected one neither uses
\* nor returns a step size above the one the rejected attempt used.
C6_NoGrowthAfterRejection ==
    \A s \in Solvers :
        LET sv == solver[s]
        IN  (sv.pc = "while" /\ sv.accepted /\ sv.after_reject)
              => /\ sv.hstep <= sv.rej_hstep
                 /\ sv.rk_state.h <= sv.rej_hstep

\* After a rejection an attempt with error norm 0 was accepted short of the
\* target: uncapped, its step size would have grown by max_factor.
C6_Witness ==
    \E s \in Solvers :
        /\ solver[s].pc = "while"
        /\ solver[s].accepted /\ solver[s].after_reject
        /\ ~solver[s].achieved
        /\ solver[s].errnorm = 0
        /\ solver[s].rk_state.h > 0

\* The facts C7 states of one tableau.
WellShaped(T) ==
    LET n == T.n_stages
    IN  /\ Len(T.A) = n
        /\ \A r \in 1..Len(T.A) :
              /\ Len(T.A[r]) = n
              /\ \A j \in r..Len(T.A[r]) : T.A[r][j] = 0
        /\ Len(T.B) = n
        /\ Len(T.C) = n
        /\ Len(T.E) = n + 1
        /\ T.C[1] = 0
        /\ \A j \in 1..(Len(T.C) - 1) : T.C[j] <= T.C[j + 1]

\* C7: every method of the registry has A strictly lower-triangular of
\* shape (s, s), B and C of length s, E of length s + 1, C[0] = 0 and C
\* ascending, s being its number of stages.
C7_TableauShapes == \A c \in DOMAIN classes : WellShaped(classes[c])

C9_NonMonotonicRefused ==
    \A s \in Solvers :
        (~Increasing(solver[s].arg_ts) /\ ~Decreasing(solver[s].arg_ts))
          => solver[s].pc \notin {"attempt", "done"}

\* C10: as long as every attempt has had an error norm (rk_step could store
\* the derivative it was given) and none was below 1, the call has
\* neither returned nor raised, t and y of the step state are those solve()
\* started from, and each attempt is followed by another one, with a
\* candidate step size that is not above the size the attempt used.
C10_NeverAcceptedNeverReturns ==
    [][\A s \in Solvers :
          (~solver'[s].acc_seen /\ ~StoreRaises(solver'[s].f0, Len(solver'[s].y0s))) =>
            /\ solver'[s].pc \notin {"done", "raised"}
            /\ solver'[s].pc \in {"for", "while", "attempt"}
                  => /\ solver'[s].rk_state.t = solver'[s].ts[1]
                     /\ solver'[s].rk_state.y = solver'[s].y0
            /\ solver[s].pc = "attempt"
                  => /\ solver'[s].pc = "attempt"
                     /\ ~solver'[s].accepted
                     /\ 0 <= solver'[s].h
                     /\ solver'[s].h <= solver'[s].hstep
                     /\ solver'[s].hstep <= solver[s].h]_vars

\* Every attempt so far was rejected and the step size has shrunk to 0
\* while the error norm is still not below 1.
C10_Witness ==
    \E s \in Solvers :
        /\ solver[s].pc = "attempt"
        /\ solver[s].rej_seen /\ ~solver[s].acc_seen
        /\ solver[s].ts[1] < solver[s].ts[2]
        /\ solver[s].h = 0
        /\ solver[s].rej_hstep = 0

\* The caller's function returns its values in another shape than y's.
Mismatching(sv) == FcnCall(sv.fcn, 0, sv.arg_y0).shape # sv.arg_y0.shape

\* C11: a call whose derivative function returns a value of another shape
\* than y's fails at the first evaluation, the one solve() makes before its
\* loop: it never enters the loop over the grid, attempts no sub-step and
\* returns no trajectory.
C11_ShapeMismatchFails ==
    \A s \in Solvers :
        Mismatching(solver[s]) => solver[s].pc \in {"setup", "solve", "raised"}

\* The steps one call is followed for when it runs alone.
MaxRun == 40

RECURSIVE RunAlone(_, _)
\* The call sv after at most n further steps with no other call about.
RunAlone(sv, n) ==
    IF n = 0 \/ sv.pc \in {"done", "raised"} THEN sv
    ELSE RunAlone(StepR(sv, NaN), n - 1)

\* The call of sv as _rk_adaptive starts it.
Fresh(sv) == New(sv.cls, [atol |-> sv.atol, rtol |-> sv.rtol], sv.fcn, sv.arg_ts, sv.arg_y0)

\* C12: whatever the order in which the steps of two calls interleave, the
\* class attributes of RK23 and RK45 are those the registry started with,
\* and a call that has returned has returned the trajectory it returns when
\* it runs alone.
C12_CallsDoNotInterfere ==
    /\ classes = Registry
    /\ \A s \in Solvers :
          solver[s].pc = "done" =>
            /\ RunAlone(Fresh(solver[s]), MaxRun).pc = "done"
            /\ solver[s].result = RunAlone(Fresh(solver[s]), MaxRun).result

\* Two calls of different classes and grids have both returned, one of them
\* after rejected and accepted attempts.
C12_Witness ==
    /\ DOMAIN solver = {1, 2}
    /\ solver[1].cls # solver[2].cls
    /\ solver[1].arg_ts # solver[2].arg_ts
    /\ solver[1].pc = "done" /\ solver[2].pc = "done"
    /\ solver[1].rej_seen /\ solver[1].acc_seen

\* C14: an attempt that is rejected leaves the step state, the time, value
\* and derivative the next attempt starts from, the output buffer, the grid
\* index and the recordings as they were; the next step is another attempt.
C14_RejectionKeepsFrame ==
    [][\A s \in Solvers :
          (solver[s].pc = "attempt" /\ solver'[s].pc # "raised" /\ ~solver'[s].accepted)
             => /\ solver'[s].pc = "attempt"
                /\ solver'[s].rk_state = solver[s].rk_state
                /\ solver'[s].t0 = solver[s].t0
                /\ solver'[s].y0s = solver[s].y0s
                /\ solver'[s].f0 = solver[s].f0
                /\ solver'[s].t1 = solver[s].t1
                /\ solver'[s].yt = solver[s].yt
                /\ solver'[s].i = solver[s].i
                /\ solver'[s].rec = solver[s].rec
                /\ solver'[s].result = solver[s].result]_vars

\* An attempt of positive length was rejected for a finite error norm and
\* left a shorter candidate.
C14_Witness ==
    \E s \in Solvers :
        /\ solver[s].pc = "attempt" /\ solver[s].prev_rejected
        /\ solver[s].errnorm # NaN /\ solver[s].errnorm >= Unit
        /\ 0 < solver[s].h /\ solver[s].h < solver[s].hstep

\* min(max_factor, step_mult * errnorm ** (-1 / (order + 1))), or max_factor
\* for an error norm of 0.
GrowthFactor(sv, errnorm) ==
    IF errnorm = 0 THEN sv.max_factor
    ELSE PyMin(sv.max_factor, Mul(sv.step_mult, PowInv(errnorm, sv.root)))

\* C15 as stated: an accepted attempt that is not the terminal one of its
\* interval leaves the candidate h times the growth factor, which is never
\* below the h it was given and never above 10 times it.
C15_AcceptedStepGrows ==
    [][\A s \in Solvers :
          (solver[s].pc = "attempt" /\ solver'[s].pc # "raised"
           /\ solver'[s].accepted /\ ~solver'[s].achieved)
             => /\ solver'[s].h = Mul(solver[s].h, GrowthFactor(solver[s], solver'[s].errnorm))
                /\ solver[s].h <= solver'[s].h
                /\ solver'[s].h <= Mul(solver[s].h, Lit(10, 1))]_vars

\* C15 amended: an accepted attempt that is not the terminal one of its
\* interval leaves the candidate h times a factor that is the growth factor,
\* capped at 1 when the attempt before was rejected; the factor lies between
\* step_mult and max_factor, so the new candidate is at least 0.9 times the
\* h it was given, possibly smaller than it, and at most 10 times it.
C15_AcceptedStepFactor ==
    [][\A s \in Solvers :
          (solver[s].pc = "attempt" /\ solver'[s].pc # "raised"
           /\ solver'[s].accepted /\ ~solver'[s].achieved)
             => LET g == GrowthFactor(solver[s], solver'[s].errnorm)
                    f == IF solver[s].prev_rejected THEN PyMin(Lit(1, 1), g) ELSE g
                IN  /\ solver'[s].h = Mul(solver[s].h, f)
                    /\ solver'[s].rk_state.h = solver'[s].h
                    /\ Lit(9, 10) <= f /\ f <= Lit(10, 1)
                    /\ Mul(solver[s].h, Lit(9, 10)) <= solver'[s].h
                    /\ solver'[s].h <= Mul(solver[s].h, Lit(10, 1))]_vars

\* An attempt that followed no rejection was accepted short of the target
\* and left a candidate smaller than the step it used.
C15_Witness ==
    \E s \in Solvers :
        /\ solver[s].pc = "while"
        /\ solver[s].accepted /\ ~solver[s].achieved /\ ~solver[s].after_reject
        /\ 0 < solver[s].rk_state.h
        /\ solver[s].rk_state.h < solver[s].hstep

\* What C16 says of the steps between an accepted terminal attempt and the
\* first attempt of the next interval, the time reached being tn: the step
\* state is (fnew, tn, ynew, h) with h the candidate the attempt was given,
\* not the shorter step it used, and that h is the first candidate of the
\* next interval.
TerminalStep(s, tn) ==
    /\ (solver[s].pc = "attempt" /\ solver'[s].pc # "raised"
        /\ solver'[s].accepted /\ solver'[s].achieved)
          => /\ solver'[s].rk_state.t = tn
             /\ solver'[s].rk_state.h = solver[s].h
             /\ solver'[s].rk_state.y = solver'[s].calls[Len(solver'[s].calls)].y
             /\ Store(solver'[s].rk_state.f, Len(solver[s].y0s)) = solver'[s].K[Len(solver'[s].K)]
             /\ solver'[s].t1_achieved
    /\ (solver[s].pc \in {"for", "while"} /\ solver'[s].pc \in {"for", "while", "attempt"})
          => solver'[s].rk_state = solver[s].rk_state
    /\ (solver[s].pc = "while" /\ solver'[s].pc = "attempt")
          => solver'[s].h = solver[s].rk_state.h

C17_DerivativeOfOwnPoint ==
    \A s \in Solvers :
        /\ solver[s].pc \in {"for", "while", "attempt", "done"}
              => solver[s].rk_state.f
                    = Func(solver[s], solver[s].rk_state.t, solver[s].rk_state.y)
        /\ solver[s].pc = "attempt"
              => solver[s].f0 = Func(solver[s], solver[s].t0, solver[s].y0s)

\* A step state produced by an accepted attempt of positive length that
\* followed a rejected one, whose f differs from the initial derivative.
C17_Witness ==
    \E s \in Solvers :
        /\ solver[s].pc = "while" /\ solver[s].accepted /\ solver[s].after_reject
        /\ solver[s].hstep > 0
        /\ solver[s].rk_state.t # solver[s].ts[1]
        /\ IsFin(solver[s].rk_state.f[1])
        /\ solver[s].rk_state.f # Func(solver[s], solver[s].ts[1], solver[s].y0)

\* What one attempt that returned from rk_step shows of it: sv is the solver
\* before the attempt, nx after it, st the number of stages of its scheme.
KernelStep(sv, nx, st) ==
    LET n == Len(sv.y0s)
    IN  /\ Len(nx.calls) = st
        /\ \A j \in 1..(st - 1) :
              /\ nx.calls[j].t = Add(sv.t0, Mul(sv.C[j + 1], nx.hstep))
              /\ nx.K[j + 1] = Store(Func(sv, nx.calls[j].t, nx.calls[j].y), n)
        /\ nx.calls[st].t = Add(sv.t0, nx.hstep)
        /\ Len(nx.K) = st + 1
        /\ nx.K[1] = Store(sv.f0, n)
        /\ Len(sv.f0) = n => nx.K[1] = sv.f0
        /\ nx.K[st + 1] = Store(Func(sv, nx.calls[st].t, nx.calls[st].y), n)
        /\ nx.accepted => /\ nx.rk_state.f = Func(sv, nx.calls[st].t, nx.calls[st].y)
                          /\ Store(nx.rk_state.f, n) = nx.K[st + 1]
        /\ nx.K = RkStep([sv EXCEPT !.K = Rows(st + 1, n, NaN)],
                         sv.t0, sv.y0s, sv.f0, nx.hstep).K
        /\ nx.errnorm = Div(ErrorNorm(sv, nx.K, nx.hstep), Scale(sv, nx.calls[st].y))

\* C18: one invocation of rk_step with an s-stage tableau calls func s times,
\* at t + C[i] * h for i = 1..s-1 in that order and then at t + h; when it
\* returns, row 0 of K holds the input f, row i what the i-th call returned,
\* row s the returned fnew, and K is what the invocation would have left in
\* any other buffer, so the error estimator reads nothing older.
C18_KernelCallsAndBuffer ==
    [][\A s \in Solvers :
          (solver[s].pc = "attempt" /\ solver'[s].pc # "raised")
              => KernelStep(solver[s], solver'[s], classes[solver[s].cls].n_stages)]_vars

\* An attempt of the six-stage scheme over a positive step has just run on a
\* buffer that a rejected attempt had filled, all of it finite.
C18_Witness ==
    \E s \in Solvers :
        /\ solver[s].pc \in {"while", "attempt"}
        /\ solver[s].after_reject /\ solver[s].hstep > 0
        /\ Len(solver[s].calls) = 6
        /\ \A r \in 1..Len(solver[s].K) : IsFin(solver[s].K[r][1])
        /\ solver[s].K[2] # solver[s].K[1]

\* A time of the solver's axis on the caller's axis.
CallerTime(sv, t) == IF sv.flip THEN Neg(t) ELSE t

Between(a, x, b) == (a <= x /\ x <= b) \/ (b <= x /\ x <= a)

\* C20: on a strictly monotonic grid every call of the caller's function by
\* an attempt, accepted or rejected, is at a time between the time the
\* attempt starts from and the target of its interval, and so within the
\* span from ts[0] to ts[-1].
C20_CallsWithinInterval ==
    [][\A s \in Solvers :
          (/\ Increasing(solver[s].arg_ts) \/ Decreasing(solver[s].arg_ts)
           /\ solver[s].pc = "attempt" /\ solver'[s].pc # "raised")
              => \A j \in 1..Len(solver'[s].calls) :
                    /\ Between(CallerTime(solver[s], solver[s].t0),
                               CallerTime(solver[s], solver'[s].calls[j].t),
                               CallerTime(solver[s], solver[s].t1))
                    /\ Between(solver[s].arg_ts[1],
                               CallerTime(solver[s], solver'[s].calls[j].t),
                               solver[s].arg_ts[Len(solver[s].arg_ts)])]_vars

\* An attempt of solver s with a used step of at most th was rejected, or
\* an attempt raised.
RejectedAtOrBelow(s, th) ==
    \/ solver[s].pc = "raised"
    \/ solver[s].pc = "attempt" /\ solver[s].prev_rejected /\ solver[s].hstep <= th

\* solve has returned, having recorded the grid points 1, ..., len(ts) - 1 in
\* this order.
Completed(s) ==
    /\ solver[s].pc = "done"
    /\ Len(solver[s].rec) = Len(solver[s].arg_ts) - 1
    /\ \A j \in 1..Len(solver[s].rec) : solver[s].rec[j].i = j

\* C19: on a strictly monotonic grid, when every attempt whose used step is
\* at most a positive threshold (here the smallest positive number of the
\* format, the weakest such premise) has an error norm below 1, solve
\* eventually returns with every grid point recorded in order.
C19_SmallStepsAcceptedTerminates ==
    (Increasing(solver[1].arg_ts) \/ Decreasing(solver[1].arg_ts))
        => <>(RejectedAtOrBelow(1, 1) \/ Completed(1))

\* The grid the caller gave is strictly increasing or strictly decreasing.
StrictlyMonotonic(sv) == Increasing(sv.arg_ts) \/ Decreasing(sv.arg_ts)

\* C21: for a strictly monotonic grid the candidate h of the step state, and
\* the local h of _single_step, are strictly positive, the step an attempt
\* passes to rk_step is finite and not negative, and an attempt that follows
\* a rejection starts from an h strictly below the rejected step and is not
\* a terminal (clamped) one.
C21_StepSizePositive ==
    \A s \in Solvers :
        StrictlyMonotonic(solver[s]) =>
            /\ solver[s].pc \in {"for", "while", "attempt"}
                  => Lt(0, solver[s].rk_state.h)
            /\ solver[s].pc = "attempt"
                  => /\ Lt(0, solver[s].h)
                     /\ IsFin(HStep(solver[s])) /\ ~Lt(HStep(solver[s]), 0)
            /\ (solver[s].pc = "attempt" /\ solver[s].prev_rejected)
                  => /\ Lt(solver[s].h, solver[s].hstep)
                     /\ ~Achieved(solver[s])

\* The first two points of the grid the caller gave are equal.
EqualStart(sv) == sv.arg_ts[1] = sv.arg_ts[2]

\* C22 as stated: with ts[0] == ts[1] the call neither returns nor raises,
\* and every attempt is a zero-length one that is not terminal, is accepted
\* and leaves h at 0.
C22_EqualStartAcceptsForever ==
    [][\A s \in Solvers :
          EqualStart(solver[s]) =>
            /\ solver'[s].pc \notin {"done", "raised"}
            /\ solver[s].pc = "attempt"
                  => /\ solver'[s].hstep = 0 /\ ~solver'[s].achieved
                     /\ solver'[s].accepted
                     /\ solver'[s].h = 0]_vars

\* C22 amended: with ts[0] == ts[1] the step state keeps h = 0 and
\* t = ts[0], no grid point is recorded and the call never returns; every
\* attempt rk_step can run is zero-length and not terminal, has an error norm
\* of 0 or a non-finite one, is accepted in the first case and rejected in
\* the second, and leaves h at 0; the call raises only in its first attempt,
\* when rk_step cannot store the derivative it was given.
C22_EqualStartNeverCompletes ==
    [][\A s \in Solvers :
          EqualStart(solver[s]) =>
            /\ solver'[s].pc # "done" /\ solver'[s].rec = <<>>
            /\ solver'[s].pc \in {"for", "while", "attempt"}
                  => /\ solver'[s].rk_state.h = 0
                     /\ solver'[s].rk_state.t = solver'[s].ts[1]
            /\ (solver[s].pc = "attempt" /\ ~StoreRaises(solver[s].f0, Len(solver[s].y0s)))
                  => /\ solver'[s].hstep = 0 /\ ~solver'[s].achieved
                     /\ solver'[s].errnorm \in {0, NaN}
                     /\ solver'[s].accepted <=> solver'[s].errnorm = 0
                     /\ solver'[s].pc = (IF solver'[s].accepted THEN "while" ELSE "attempt")
                     /\ solver'[s].h = 0
            /\ (solver[s].pc # "raised" /\ solver'[s].pc = "raised")
                  => /\ solver[s].pc = "attempt"
                     /\ StoreRaises(solver[s].f0, Len(solver[s].y0s))
                     /\ ~solver[s].acc_seen /\ ~solver[s].rej_seen]_vars

\* With ts[0] == ts[1] a zero-length attempt was accepted at ts[0] with
\* h = 0, and the next attempt of the same interval is about to run.
C22_Witness ==
    \E s \in Solvers :
        /\ EqualStart(solver[s])
        /\ solver[s].pc = "attempt" /\ solver[s].acc_seen /\ ~solver[s].prev_rejected
        /\ solver[s].h = 0 /\ solver[s].hstep = 0
        /\ solver[s].t0 = solver[s].ts[1] /\ solver[s].i = 1

(***************************************************************************)
(* The documented example: RK45 and RK23 on fcn(t, y) = t + y with         *)
(* ts = torch.linspace(0, 1, 11), y0 = torch.tensor([0.0]), atol = 1e-8    *)
(* and rtol = 1e-5.  y0 is a float32 tensor, so setup converts the tableau *)
(* to float32 and the whole solve runs at that precision; the steps below  *)
(* are those of Spec over the numbers of that format.                      *)
(***************************************************************************)
(***************************************************************************)
(* The numbers of a solve in torch.float32: binary floating point with     *)
(* WPrecision significant bits, rounded to nearest, ties to even. A number *)
(* is <<m, e>>, standing for m * 2^e with 2^(WPrecision-1) <= |m| <        *)
(* 2^WPrecision, or <<0, 0>>. The exponent is not limited: WNormal tells   *)
(* whether a number is in the normal range of float32.                     *)
(***************************************************************************)
WPrecision == 24

WZero == <<0, 0>>
WIsZero(a) == a[1] = 0
WNeg(a) == <<-a[1], a[2]>>
WAbs(a) == <<Abs(a[1]), a[2]>>
WSigned(neg, a) == IF neg THEN WNeg(a) ELSE a
WNormal(a) == WIsZero(a) \/ (a[2] + WPrecision - 1 >= -126 /\ a[2] + WPrecision - 1 <= 127)

RECURSIVE BitLen(_)
\* The number of bits of n >= 0.
BitLen(n) == IF n = 0 THEN 0 ELSE 1 + BitLen(n \div 2)

\* (q + rem / (2 * half)) * 2^e, rem < 2 * half, rounded to the integer q or
\* q + 1; sticky tells that the exact value is above what rem says.
WRoundQ(q, rem, half, sticky, e) ==
    IF rem > half \/ (rem = half /\ (sticky \/ q % 2 = 1))
    THEN (IF q + 1 = 2 ^ WPrecision THEN <<2 ^ (WPrecision - 1), e + 1>> ELSE <<q + 1, e>>)
    ELSE <<q, e>>

\* The magnitude mag * 2^e (mag >= 0, or just above it when sticky) as a
\* number of the format; mag has WPrecision + k bits.
WRound(mag, sticky, e) ==
    LET k == BitLen(mag) - WPrecision
    IN  IF mag = 0 THEN WZero
        ELSE IF k <= 0 THEN <<mag * 2 ^ (-k), e + k>>
        ELSE WRoundQ(mag \div 2 ^ k, mag % 2 ^ k, 2 ^ (k - 1), sticky, e + k)

\* The integer n as a number of the format.
WFromInt(n) == WSigned(n < 0, WRound(Abs(n), FALSE, 0))

\* a + b for the exponent of a not below that of b, d their difference: the
\* sum is formed three places below the last place of a.
WAddShifted(a, b, d, s) ==
    IF s = 0 THEN WZero
    ELSE IF s > 0 THEN WRound(s, (b[1] * 8) % 2 ^ d # 0, a[2] - 3)
    ELSE WNeg(WRound(IF (b[1] * 8) % 2 ^ d # 0 THEN -s - 1 ELSE -s,
                     (b[1] * 8) % 2 ^ d # 0, a[2] - 3))

WAddOrdered(a, b, d) ==
    IF d > WPrecision + 2 THEN a
    ELSE WAddShifted(a, b, d, a[1] * 8 + ((b[1] * 8) \div 2 ^ d))

WAdd(a, b) ==
    IF WIsZero(a) THEN b
    ELSE IF WIsZero(b) THEN a
    ELSE IF a[2] >= b[2] THEN WAddOrdered(a, b, a[2] - b[2])
    ELSE WAddOrdered(b, a, b[2] - a[2])

WSub(a, b) == WAdd(a, WNeg(b))
WLt(a, b) == WSub(a, b)[1] < 0
WMax(a, b) == IF WLt(a, b) THEN b ELSE a

\* The product x * y of two magnitudes as hi * 2^24 + lo, from their halves.
WProdMid(x, y) == (x \div 4096) * (y % 4096) + (x % 4096) * (y \div 4096)
WProdLow(x, y) == (x % 4096) * (y % 4096) + (WProdMid(x, y) % 4096) * 4096
WProdHigh(x, y) ==
    (x \div 4096) * (y \div 4096) + WProdMid(x, y) \div 4096 + WProdLow(x, y) \div 16777216

\* (hi * 2^24 + lo) * 2^e, lo < 2^24, which has WPrecision + k bits.
WRoundWide(hi, lo, e, k) ==
    IF k <= 24
    THEN WRoundQ(hi * 2 ^ (24 - k) + lo \div 2 ^ k, lo % 2 ^ k, 2 ^ (k - 1), FALSE, e + k)
    ELSE WRoundQ(hi \div 2 ^ (k - 24), (hi % 2 ^ (k - 24)) * 16777216 + lo, 2 ^ (k - 1),
                 FALSE, e + k)

WMul(a, b) ==
    IF WIsZero(a) \/ WIsZero(b) THEN WZero
    ELSE WSigned((a[1] < 0) # (b[1] < 0),
                 WRoundWide(WProdHigh(Abs(a[1]), Abs(b[1])),
                            WProdLow(Abs(a[1]), Abs(b[1])) % 16777216, a[2] + b[2],
                            BitLen(WProdHigh(Abs(a[1]), Abs(b[1]))) + 24 - WPrecision))

RECURSIVE WQuot(_, _, _, _, _)
\* n more binary places of the quotient q so far, with remainder r < y, and
\* the quotient as a number of the format, 2^e being its last place.
WQuot(r, y, n, q, e) ==
    IF n = 0 THEN WRound(q, r # 0, e)
    ELSE IF 2 * r >= y THEN WQuot(2 * r - y, y, n - 1, 2 * q + 1, e)
    ELSE WQuot(2 * r, y, n - 1, 2 * q, e)

\* a / b for b other than zero.
WDiv(a, b) ==
    IF WIsZero(a) THEN WZero
    ELSE WSigned((a[1] < 0) # (b[1] < 0),
                 WQuot(Abs(a[1]) % Abs(b[1]), Abs(b[1]), WPrecision + 2,
                       Abs(a[1]) \div Abs(b[1]), a[2] - b[2] - (WPrecision + 2)))

\* A Python literal p/q as the format stores it.
WLit(p, q) == WDiv(WFromInt(p), WFromInt(q))

WOne == WFromInt(1)

\* The candidate m * 2^g is not above the square root of x.
WSqrtBelow(m, g, x) == ~WLt(x, WMul(<<m, g>>, <<m, g>>))

RECURSIVE WSqrtUp(_, _, _, _)
\* The largest m in lo..hi-1 with WSqrtBelow (lo has it, hi has not).
WSqrtUp(lo, hi, g, x) ==
    IF hi - lo <= 1 THEN lo
    ELSE IF WSqrtBelow((lo + hi) \div 2, g, x) THEN WSqrtUp((lo + hi) \div 2, hi, g, x)
    ELSE WSqrtUp(lo, (lo + hi) \div 2, g, x)

\* The square root of x >= 0: the largest number whose square, as the format
\* stores it, is not above x.
WSqrt(x) ==
    IF WIsZero(x) THEN WZero
    ELSE <<WSqrtUp(2 ^ (WPrecision - 1), 2 ^ WPrecision,
                   ((x[2] + WPrecision - 1) \div 2) - (WPrecision - 1), x),
           ((x[2] + WPrecision - 1) \div 2) - (WPrecision - 1)>>

RECURSIVE WPowN(_, _)
\* r ** n by repeated multiplication (n >= 1).
WPowN(r, n) == IF n = 1 THEN r ELSE WMul(WPowN(r, n - 1), r)

\* (m * 2^g) ** q * x <= 1
WRootBelow(m, g, x, q) == ~WLt(WOne, WMul(WPowN(<<m, g>>, q), x))

RECURSIVE WRootUp(_, _, _, _, _)
\* The largest m in lo..hi-1 with WRootBelow (lo has it, hi has not).
WRootUp(lo, hi, g, x, q) ==
    IF hi - lo <= 1 THEN lo
    ELSE IF WRootBelow((lo + hi) \div 2, g, x, q) THEN WRootUp((lo + hi) \div 2, hi, g, x, q)
    ELSE WRootUp(lo, (lo + hi) \div 2, g, x, q)

\* The root between 2^n and 2^(n+1), n being d or d - 1.
WRootNear(x, q, d) ==
    IF WRootBelow(2 ^ (WPrecision - 1), d - (WPrecision - 1), x, q)
    THEN <<WRootUp(2 ^ (WPrecision - 1), 2 ^ WPrecision, d - (WPrecision - 1), x, q),
           d - (WPrecision - 1)>>
    ELSE <<WRootUp(2 ^ (WPrecision - 1), 2 ^ WPrecision, d - WPrecision, x, q),
           d - WPrecision>>

\* errnorm ** error_exponent, the exponent being -1/q: x ** (-1/q) for x > 0.
WPowInv(x, q) == WRootNear(x, q, (-(x[2] + WPrecision - 1)) \div q)

\* Python's min(a, b) and max(a, b): the second argument only when it compares so.
WPyMin(a, b) == IF WLt(b, a) THEN b ELSE a
WPyMax(a, b) == IF WLt(a, b) THEN b ELSE a

RECURSIVE WSumSq(_)
WSumSq(v) == IF v = <<>> THEN WZero ELSE WAdd(WMul(Head(v), Head(v)), WSumSq(Tail(v)))
\* v.norm(): the Euclidean norm of a flat vector.
WNorm(v) == WSqrt(WSumSq(v))

WVecAdd(u, v) == LET F(j) == WAdd(u[j], v[j]) IN Build(F, Len(u))
WVecScale(u, k) == LET F(j) == WMul(u[j], k) IN Build(F, Len(u))
WVecNeg(u) == LET F(j) == WNeg(u[j]) IN Build(F, Len(u))

RECURSIVE WDot(_, _, _, _)
\* Element j of matmul(K[:s].T, a[:s]): sum over i < s of K[i][j] * a[i].
WDot(K, a, s, j) ==
    IF s = 0 THEN WZero
    ELSE IF s = 1 THEN WMul(K[1][j], a[1])
    ELSE WAdd(WDot(K, a, s - 1, j), WMul(K[s][j], a[s]))

\* matmul(K[:s].T, a[:s]) for rows of length n.
WMatVec(K, a, s, n) == LET F(j) == WDot(K, a, s, j) IN Build(F, n)

\* The class attributes of RK23 and RK45 after .to(torch.float32).
WLitRow(row) == LET F(k) == WLit(row[k][1], row[k][2]) IN Build(F, Len(row))
WLitMat(m) == LET F(k) == WLitRow(m[k]) IN Build(F, Len(m))

WRK23 ==
    [error_estimator_order |-> 2,
     n_stages |-> 3,
     C |-> WLitRow(<< <<0, 1>>, <<1, 2>>, <<3, 4>> >>),
     A |-> WLitMat(<< << <<0, 1>>, <<0, 1>>, <<0, 1>> >>,
                      << <<1, 2>>, <<0, 1>>, <<0, 1>> >>,
                      << <<0, 1>>, <<3, 4>>, <<0, 1>> >> >>),
     B |-> WLitRow(<< <<2, 9>>, <<1, 3>>, <<4, 9>> >>),
     E |-> WLitRow(<< <<5, 72>>, <<-1, 12>>, <<-1, 9>>, <<1, 8>> >>)]

WRK45 ==
    [error_estimator_order |-> 4,
     n_stages |-> 6,
     C |-> WLitRow(<< <<0, 1>>, <<1, 5>>, <<3, 10>>, <<4, 5>>, <<8, 9>>, <<1, 1>> >>),
     A |-> WLitMat(<<
        << <<0, 1>>, <<0, 1>>, <<0, 1>>, <<0, 1>>, <<0, 1>> >>,
        << <<1, 5>>, <<0, 1>>, <<0, 1>>, <<0, 1>>, <<0, 1>> >>,
        << <<3, 40>>, <<9, 40>>, <<0, 1>>, <<0, 1>>, <<0, 1>> >>,
        << <<44, 45>>, <<-56, 15>>, <<32, 9>>, <<0, 1>>, <<0, 1>> >>,
        << <<19372, 6561>>, <<-25360, 2187>>, <<64448, 6561>>, <<-212, 729>>, <<0, 1>> >>,
        << <<9017, 3168>>, <<-355, 33>>, <<46732, 5247>>, <<49, 176>>, <<-5103, 18656>> >> >>),
     B |-> WLitRow(<< <<35, 384>>, <<0, 1>>, <<500, 1113>>, <<125, 192>>,
                      <<-2187, 6784>>, <<11, 84>> >>),
     E |-> WLitRow(<< <<-71, 57600>>, <<0, 1>>, <<71, 16695>>, <<-71, 1920>>,
                      <<17253, 339200>>, <<-22, 525>>, <<1, 40>> >>)]

WRegistry == [rk23 |-> WRK23, rk45 |-> WRK45]

\* def fcn(t, y): return t + y
WFcnCall(fcn, t, y) == LET F(j) == WAdd(t, y.data[j]) IN Tensor(y.shape, Build(F, Numel(y)))

\* self.func(t, y)
WFunc(sv, t, y) ==
    IF sv.flip
    THEN WVecNeg(Flatten(WFcnCall(sv.fcn, WNeg(t), Reshape(Tensor(<<Len(y)>>, y), sv.yshape))).data)
    ELSE Flatten(WFcnCall(sv.fcn, t, Reshape(Tensor(<<Len(y)>>, y), sv.yshape))).data

RECURSIVE WStageLoop(_, _, _, _, _, _, _)
\* The for loop of rk_step from stage s on: [K, calls] after the last stage.
WStageLoop(sv, t, y, h, K, calls, s) ==
    IF s + 1 > Len(sv.A) \/ s + 1 > Len(sv.C) THEN [K |-> K, calls |-> calls]
    ELSE LET a == sv.A[s + 1]
             c == sv.C[s + 1]
             dy == WVecScale(WMatVec(K, a, s, Len(y)), h)
             tc == WAdd(t, WMul(c, h))
             yc == WVecAdd(y, dy)
         IN  WStageLoop(sv, t, y, h, [K EXCEPT ![s + 1] = Store(WFunc(sv, tc, yc), Len(y))],
                        Append(calls, [t |-> tc, y |-> yc]), s + 1)

\* fnew = func(t + h, ynew)
WRkLast(sv, t, h, st, ynew) == RkReturn(st, WAdd(t, h), ynew, WFunc(sv, WAdd(t, h), ynew))

\* WRkCombine taking ynew = y + h * K[0].
WRkCombineEuler(sv, t, y, h, st) == WRkLast(sv, t, h, st, WVecAdd(y, WVecScale(st.K[1], h)))

\* ynew = y + h * torch.matmul(K[:-1].T, B)
WRkCombine(sv, t, y, h, st) ==
    WRkLast(sv, t, h, st, WVecAdd(y, WVecScale(WMatVec(st.K, sv.B, Len(st.K) - 1, Len(y)), h)))

\* rk_step(self.func, t, y, f, h, (self.A, self.B, self.C, self.K))
WRkStep(sv, t, y, f, h) ==
    WRkCombine(sv, t, y, h,
               WStageLoop(sv, t, y, h, [sv.K EXCEPT ![1] = Store(f, Len(y))], <<>>, 1))

\* self._error_norm(K, h)
WErrorNorm(sv, K, h) == WNorm(WVecScale(WMatVec(K, sv.E, Len(K), Len(K[1])), h))

\* scale = self.atol + torch.max(y0.norm(), ynew.norm()) * self.rtol
WScale(sv, ynew) == WAdd(sv.atol, WMul(WMax(WNorm(sv.y0s), WNorm(ynew)), sv.rtol))

WAdjustGrown(sv, errnorm) == WMul(sv.step_mult, WPowInv(errnorm, sv.root))
WAdjustFactor(sv, errnorm) ==
    IF WIsZero(errnorm) THEN sv.max_factor ELSE WPyMin(sv.max_factor, WAdjustGrown(sv, errnorm))
WAdjustCapped(sv, factor) == IF sv.prev_rejected THEN WPyMin(WOne, factor) ELSE factor

\* adjust the step size
WAdjustStep(sv, h, hstep, errnorm, accepted, achieved) ==
    IF accepted /\ ~achieved THEN WMul(h, WAdjustCapped(sv, WAdjustFactor(sv, errnorm)))
    ELSE IF ~accepted THEN WMul(hstep, WPyMax(sv.min_factor, WAdjustGrown(sv, errnorm)))
    ELSE h

\* t1_achieved = t0 + h > t1
WAchieved(sv) == WLt(sv.t1, WAdd(sv.t0, sv.h))
\* hstep = t1 - t0 if t1_achieved else h
WHStep(sv) == IF WAchieved(sv) THEN WSub(sv.t1, sv.t0) ELSE sv.h
\* accepted = errnorm < 1
WAccepted(errnorm) == WLt(errnorm, WOne)

WAttemptEnd(sv, achieved, hstep, rk, errnorm, h) ==
    [sv EXCEPT
        !.K = rk.K, !.calls = rk.calls,
        !.achieved = achieved, !.hstep = hstep, !.tnew = WAdd(sv.t0, hstep),
        !.errnorm = errnorm, !.accepted = WAccepted(errnorm),
        !.h = h, !.prev_rejected = ~WAccepted(errnorm),
        !.rk_state = IF WAccepted(errnorm)
                     THEN [f |-> rk.fnew, t |-> WAdd(sv.t0, hstep), y |-> rk.ynew, h |-> h]
                     ELSE @,
        !.t1_achieved = IF WAccepted(errnorm) THEN achieved ELSE @,
        !.after_reject = sv.prev_rejected,
        !.rej_hstep = IF WAccepted(errnorm) THEN @ ELSE hstep,
        !.acc_seen = @ \/ WAccepted(errnorm),
        !.rej_seen = @ \/ ~WAccepted(errnorm),
        !.pc = IF WAccepted(errnorm) THEN "while" ELSE "attempt"]

WAttemptAdjust(sv, achieved, hstep, rk, errnorm) ==
    WAttemptEnd(sv, achieved, hstep, rk, errnorm,
                WAdjustStep(sv, sv.h, hstep, errnorm, WAccepted(errnorm), achieved))

\* errnorm = self._error_norm(self.K, hstep) / scale
WAttemptError(sv, achieved, hstep, rk) ==
    WAttemptAdjust(sv, achieved, hstep, rk,
                   WDiv(WErrorNorm(sv, rk.K, hstep), WScale(sv, rk.ynew)))

\* ynew, fnew = rk_step(self.func, t0, y0, f0, hstep, abck)
WAttemptStep(sv, achieved, hstep) ==
    WAttemptError(sv, achieved, hstep, WRkStep(sv, sv.t0, sv.y0s, sv.f0, hstep))

\* One pass of the while loop of _single_step and, when it accepts, the return.
WAttemptR(sv) ==
    IF StoreRaises(sv.f0, Len(sv.y0s)) THEN [sv EXCEPT !.pc = "raised"]
    ELSE WAttemptStep(sv, WAchieved(sv), WHStep(sv))

WAttempt(s) ==
    /\ solver[s].pc = "attempt"
    /\ solver' = [solver EXCEPT ![s] = WAttemptR(solver[s])]
    /\ UNCHANGED classes

\* What torch.empty may hold in the example.
WGarbage == {WZero, WOne}

\* solver.setup(fcn, ts, y0, params), the uninitialised K holding g.
WSetupR(sv, g) ==
    [sv EXCEPT
        !.yshape = sv.arg_y0.shape,
        !.y0 = Flatten(sv.arg_y0).data,
        !.ts = IF WLt(WSub(sv.arg_ts[2], sv.arg_ts[1]), WZero)
               THEN WVecNeg(sv.arg_ts) ELSE sv.arg_ts,
        !.flip = WLt(WSub(sv.arg_ts[2], sv.arg_ts[1]), WZero),
        !.K = Rows(WRegistry[sv.cls].n_stages + 1, Numel(sv.arg_y0), g),
        !.A = WRegistry[sv.cls].A, !.B = WRegistry[sv.cls].B,
        !.C = WRegistry[sv.cls].C, !.E = WRegistry[sv.cls].E,
        !.pc = "solve"]

WSetup(s) ==
    /\ solver[s].pc = "setup"
    /\ \E g \in WGarbage : solver' = [solver EXCEPT ![s] = WSetupR(solver[s], g)]
    /\ classes' = SetupClass(classes, solver[s])

\* solve() up to the for loop, the uninitialised yt holding g.
WSolveBeginR(sv, g) ==
    [sv EXCEPT
        !.yt = [Rows(Len(sv.ts), Len(sv.y0), g) EXCEPT ![1] = sv.y0],
        !.rk_state = [f |-> WFunc(sv, sv.ts[1], sv.y0), t |-> sv.ts[1], y |-> sv.y0,
                      h |-> WSub(sv.ts[2], sv.ts[1])],
        !.i = 1,
        !.pc = "for"]

WSolveBegin(s) ==
    /\ solver[s].pc = "solve"
    /\ \E g \in WGarbage : solver' = [solver EXCEPT ![s] = WSolveBeginR(solver[s], g)]
    /\ UNCHANGED classes

\* torch.linspace(0, 1, 11)
DocGrid == LET F(j) == WLit(j - 1, 10) IN Build(F, 11)

\* cls(atol=1e-8, rtol=1e-5) and the arguments of its setup call.
WNew(cls) ==
    [New(cls, [atol |-> WLit(1, 100000000), rtol |-> WLit(1, 100000)], TPlusY, DocGrid,
         Tensor(<<1>>, <<WZero>>))
     EXCEPT !.max_factor = WLit(10, 1), !.min_factor = WLit(2, 10), !.step_mult = WLit(9, 10),
            !.rk_state = [f |-> <<>>, t |-> WZero, y |-> <<>>, h |-> WZero],
            !.t1 = WZero, !.t0 = WZero, !.h = WZero, !.hstep = WZero, !.tnew = WZero,
            !.errnorm = WZero, !.rej_hstep = WZero]

DocInit ==
    /\ classes = Registry
    /\ \E cls \in {"rk45", "rk23"} : solver = [s \in {1} |-> WNew(cls)]

DocNext ==
    \/ \E s \in Solvers : WSetup(s)
    \/ \E s \in Solvers : WSolveBegin(s)
    \/ \E s \in Solvers : StepCall(s)
    \/ \E s \in Solvers : SingleStepCall(s)
    \/ \E s \in Solvers : WAttempt(s)
    \/ \E s \in Solvers : Record(s)
    \/ \E s \in Solvers : Return(s)

DocSpec == DocInit /\ [][DocNext]_vars

\* The table of the doctests of RK23 and RK45, in ten-thousandths.
DocTable == <<0, 52, 214, 499, 918, 1487, 2221, 3138, 4255, 5596, 7183>>

\* |x - n / 10000| <= 1e-4
WithinTable(x, n) == ~WLt(WLit(1, 10000), WAbs(WSub(x, WLit(n, 10000))))

\* Every number the step control of solver s holds is in the normal range of
\* float32, so that rounding is all the format does to it.
DocInRange(s) ==
    /\ WNormal(solver[s].h) /\ WNormal(solver[s].hstep) /\ WNormal(solver[s].errnorm)
    /\ WNormal(solver[s].rk_state.h) /\ WNormal(solver[s].rk_state.t)
    /\ \A r \in 1..Len(solver[s].K) : \A j \in 1..Len(solver[s].K[r]) :
          WNormal(solver[s].K[r][j])

\* C13: with fcn(t, y) = t + y, ts = linspace(0, 1, 11), y0 = [0.0],
\* atol = 1e-8 and rtol = 1e-5, RK45 returns at t = 1.0 a value within 1e-4
\* of 0.7183, and RK45 and RK23 alike return, row by row, the table of the
\* doctests to within 1e-4.
C13_DocumentedValues ==
    \A s \in Solvers :
        /\ DocInRange(s)
        /\ solver[s].pc # "raised"
        /\ solver[s].pc = "done"
              => /\ solver[s].result.shape = <<11, 1>>
                 /\ WithinTable(solver[s].result.data[11], 7183)
                 /\ \A j \in 1..11 : WithinTable(solver[s].result.data[j], DocTable[j])

\* RK45 has returned from the example, having recorded the ten grid points,
\* with a last value above 0.7.
C13_Witness ==
    \E s \in Solvers :
        /\ solver[s].pc = "done" /\ solver[s].cls = "rk45"
        /\ Len(solver[s].rec) = 10
        /\ WLt(WLit(7, 10), solver[s].result.data[11])
====
